---- MODULE Spec2Model ----
(***************************************************************************)
(* libdw: the flag output registry (dw_alloc_flag_out, dw_set_flag_out,    *)
(* dw_set_flag_prod), the parity detector dw_even_odd with its two OpenMP  *)
(* parallel regions, and bootstrap_resample.                               *)
(*                                                                         *)
(* C arrays are functions over 0..n-1.  A pointer to a flag matrix is the  *)
(* matrix's number in Mats; NULL is 0.  Allocation is assumed to succeed.  *)
(***************************************************************************)
EXTENDS Integers, FiniteSets, Sequences, TLC

(* ------------------------------ bounds --------------------------------- *)
MaxRows == 2
MaxCols == 3
MaxFlag == 2
MaxProd == 1
NumMats == 2
MaxLen == 3
RandMax == 4

(* --------------------------- program values ---------------------------- *)
NULL == 0
Unselected == -1
NumParity == 2

Mats == 1..NumMats
Ptr == {NULL} \cup Mats
Arr(n, S) == [0..(n - 1) -> S]

VARIABLES
  rows, cols,            \* dw_struct: spectrogram dimensions
  flag_data, l_flag,     \* dw_struct: slot array and its length
  flag_data_ind,         \* dw_struct: slot labels
  flag_product,          \* dw_struct: product table
  l_flag_prod,           \* dw_struct: product table length
  mem,                   \* the caller's flag matrices, mem[m][offset]
  x_in, x_out,           \* the caller's resampling buffers
  call, ret,             \* the last library call with its arguments; its status
  stray, fault,          \* slot indices the last call stored to outside the array; trap
  pc, row,               \* dw_even_odd: position, and next row of every channel
  written,               \* dw_even_odd: the stores made by the current call
  mem0,                  \* the flag matrices when the current dw_even_odd began
  first                  \* the flag matrices left by the first dw_even_odd

struct == <<rows, cols, flag_data, l_flag, flag_data_ind, flag_product, l_flag_prod>>
detector == <<pc, row, written, mem0, first>>
buffers == <<mem, x_in, x_out>>
vars == <<struct, buffers, call, ret, stray, fault, detector>>

(* ------------------------------ init_dw -------------------------------- *)
init_dw(r, c) ==
  /\ rows = r
  /\ cols = c

ZeroMem(r, c) == [m \in Mats |-> [off \in 0..(r * c - 1) |-> 0]]

EmptyRegistry ==
  /\ flag_data = << >>
  /\ l_flag = 0
  /\ flag_data_ind = << >>
  /\ flag_product = << >>
  /\ l_flag_prod = 0

Quiet ==
  /\ call = [name |-> "none"]
  /\ ret = 0
  /\ stray = {}
  /\ fault = FALSE
  /\ pc = "idle"
  /\ row = << >>
  /\ written = {}
  /\ first = << >>

Init ==
  /\ init_dw(MaxRows, MaxCols)
  /\ EmptyRegistry
  /\ mem = ZeroMem(MaxRows, MaxCols)
  /\ mem0 = mem
  /\ x_in = << >>
  /\ x_out = << >>
  /\ Quiet

(* -------------------------- dw_alloc_flag_out -------------------------- *)
\* malloc does not initialise the block: every slot holds an indeterminate
\* pointer, which may be NULL or a reference stored before the reallocation.
Malloc(n) == Arr(n, Ptr)

dw_alloc_flag_out(n) ==
  /\ ~fault
  /\ flag_data' \in Malloc(n)
  /\ l_flag' = n
  /\ ret' = 0
  /\ call' = [name |-> "dw_alloc_flag_out", l_flag |-> n]
  /\ stray' = {}
  /\ UNCHANGED <<rows, cols, flag_data_ind, flag_product, l_flag_prod>>
  /\ UNCHANGED <<buffers, fault, detector>>

(* --------------------------- dw_set_flag_out --------------------------- *)
IndexOutOfRangeOffByOne(i_flag) == i_flag > l_flag

IndexOutOfRange(i_flag) == i_flag >= l_flag

dw_set_flag_out(flag, i_flag) ==
  /\ ~fault
  /\ call' = [name |-> "dw_set_flag_out", flag_data |-> flag, i_flag |-> i_flag]
  /\ UNCHANGED <<rows, cols, l_flag, flag_data_ind, flag_product, l_flag_prod>>
  /\ UNCHANGED <<buffers, detector>>
  /\ IF IndexOutOfRange(i_flag)
       THEN /\ ret' = -1
            /\ stray' = {}
            /\ UNCHANGED <<flag_data, fault>>
       ELSE IF i_flag \in 0..(l_flag - 1)
         THEN /\ flag_data' = [flag_data EXCEPT ![i_flag] = flag]
              /\ ret' = 0
              /\ stray' = {}
              /\ UNCHANGED fault
         ELSE \* the store lands outside the slot array: undefined behaviour
              \/ /\ stray' = {i_flag}
                 /\ ret' = 0
                 /\ UNCHANGED <<flag_data, fault>>
              \/ /\ fault' = TRUE
                 /\ stray' = {}
                 /\ UNCHANGED <<flag_data, ret>>

(* --------------------------- dw_set_flag_prod -------------------------- *)
CopyProduct(src, n) == [ii \in 0..(n - 1) |-> src[ii]]

CopyLabelsByProdLen(src) == [ii \in 0..(l_flag_prod' - 1) |-> src[ii]]

CopyLabels(src) == [ii \in 0..(l_flag - 1) |-> src[ii]]

dw_set_flag_prod(product, n, ind) ==
  /\ ~fault
  /\ flag_product' = CopyProduct(product, n)
  /\ l_flag_prod' = n
  /\ flag_data_ind' = CopyLabels(ind)
  /\ ret' = 0
  /\ call' = [name |-> "dw_set_flag_prod", flag_product |-> product,
              l_flag_prod |-> n, flag_data_ind |-> ind]
  /\ stray' = {}
  /\ UNCHANGED <<rows, cols, flag_data, l_flag>>
  /\ UNCHANGED <<buffers, fault, detector>>

\* the caller's arguments
SlotIndexArgs == (-1)..MaxFlag
ProductArgs(n) == Arr(n, {Unselected} \cup 0..(MaxFlag - 1))
LabelArgs == {[ii \in 0..MaxFlag |-> base + ii] : base \in {10, 20}}

AllocFlagOut == \E n \in 0..MaxFlag : dw_alloc_flag_out(n)

SetFlagOut == \E flag \in Mats, i_flag \in SlotIndexArgs : dw_set_flag_out(flag, i_flag)

SetFlagProd ==
  \E n \in 0..MaxProd : \E product \in ProductArgs(n), ind \in LabelArgs :
    dw_set_flag_prod(product, n, ind)

Next == AllocFlagOut \/ SetFlagOut \/ SetFlagProd

Spec == Init /\ [][Next]_vars

(* ------------------------------ dw_even_odd ---------------------------- *)
\* One unit of parallel work is one iteration ii of a "parallel for"; the units
\* of a region run in any interleaving, each storing its rows in order.  The
\* region ends at the implicit barrier of the construct.
RequestedOffByOne(k) == flag_product[k] >= -1

Requested(k) == flag_product[k] > -1

ChannelsEveryColumn(k) == {ii \in k..(cols - 1) : TRUE}

Channels(k) == {ii \in k..(cols - 1) : (ii - k) % 2 = 0}

Offset(r, ii) == r * cols + ii

StoreToggle(old) == 1 - old

StoreValue(old) == 1

\* flag_data[flag_product[k]] is a flag matrix (otherwise the store is wild)
Bound(k) ==
  /\ flag_product[k] \in 0..(l_flag - 1)
  /\ flag_data[flag_product[k]] \in Mats

Dest(k) == flag_data[flag_product[k]]

Par(k) == IF k = 0 THEN "par0" ELSE "par1"

\* control after the code of product k - 1: the next requested region, or return
Goto(k, m) ==
  LET region == IF k = 0 /\ Requested(0) THEN 0
                ELSE IF k <= 1 /\ Requested(1) THEN 1
                ELSE NumParity
  IN IF region < NumParity
       THEN /\ pc' = Par(region)
            /\ row' = [ii \in Channels(region) |-> 0]
            /\ UNCHANGED <<ret, first>>
       ELSE /\ pc' = "done"
            /\ row' = << >>
            /\ ret' = 0
            /\ first' = IF first = << >> THEN m ELSE first

\* the call, on flag matrices the caller has just zeroed (fresh) or left as
\* they are
dw_even_odd(fresh) ==
  /\ pc \in {"idle", "done"}
  /\ mem' = IF fresh THEN ZeroMem(rows, cols) ELSE mem
  /\ mem0' = mem'
  /\ written' = {}
  /\ call' = [name |-> "dw_even_odd", fresh |-> fresh, again |-> first # << >>]
  /\ Goto(0, mem')
  /\ UNCHANGED <<struct, x_in, x_out, stray, fault>>

Store(k, ii, r) ==
  IF Bound(k)
    THEN /\ mem' = [mem EXCEPT ![Dest(k)][Offset(r, ii)] = StoreValue(@)]
         /\ written' = written \cup
              {[prod |-> k, ii |-> ii, row |-> r, m |-> Dest(k), off |-> Offset(r, ii)]}
         /\ row' = [row EXCEPT ![ii] = r + 1]
         /\ UNCHANGED pc
    ELSE \* a store through an index outside the slot array or through a slot
         \* that holds no flag matrix: undefined behaviour.  It may land
         \* anywhere, a cell of a flag matrix included, or trap.
         /\ pc' = "ub"
         /\ row' = << >>
         /\ \/ /\ UNCHANGED mem
               /\ written' = written \cup
                    {[prod |-> k, ii |-> ii, row |-> r, m |-> NULL, off |-> 0]}
            \/ \E m \in Mats : \E off \in DOMAIN mem[m] :
                 /\ mem' = [mem EXCEPT ![m][off] = 1]
                 /\ written' = written \cup
                      {[prod |-> k, ii |-> ii, row |-> r, m |-> m, off |-> off]}

Worker(k, ii) ==
  /\ pc = Par(k)
  /\ ii \in DOMAIN row
  /\ row[ii] < rows
  /\ Store(k, ii, row[ii])
  /\ UNCHANGED <<struct, x_in, x_out, call, ret, stray, fault, mem0, first>>

BarrierNoWait(k) == TRUE

Barrier(k) == \A ii \in DOMAIN row : row[ii] = rows

Join(k) ==
  /\ pc = Par(k)
  /\ Barrier(k)
  /\ Goto(k + 1, mem)
  /\ UNCHANGED <<struct, buffers, call, stray, fault, written, mem0>>

RECURSIVE SerialFrom(_, _, _, _)
SerialFrom(m, k, ii, r) ==
  IF ii >= cols THEN m
  ELSE IF r >= rows THEN SerialFrom(m, k, ii + 2, 0)
  ELSE SerialFrom([m EXCEPT ![Dest(k)][Offset(r, ii)] = StoreValue(@)], k, ii, r + 1)

\* the build without OpenMP: the two loop nests one after the other
SerialEvenOdd(m) ==
  LET after0 == IF Requested(0) THEN SerialFrom(m, 0, 0, 0) ELSE m
  IN IF Requested(1) THEN SerialFrom(after0, 1, 1, 0) ELSE after0

InitEvenOdd ==
  /\ \E r \in 0..MaxRows, c \in 0..MaxCols :
       /\ init_dw(r, c)
       /\ mem = ZeroMem(r, c)
  /\ mem0 = mem
  /\ l_flag \in 0..MaxFlag
  /\ flag_data \in Arr(l_flag, Ptr)
  /\ flag_data_ind = [ii \in 0..(l_flag - 1) |-> 10 + ii]
  /\ flag_product \in ProductArgs(NumParity)
  /\ l_flag_prod = NumParity
  /\ x_in = << >>
  /\ x_out = << >>
  /\ Quiet

EvenOdd == \E fresh \in BOOLEAN : dw_even_odd(fresh)

Work == \E k \in 0..(NumParity - 1) : \E ii \in 0..(cols - 1) : Worker(k, ii)

EndRegion == \E k \in 0..(NumParity - 1) : Join(k)

NextEvenOdd == EvenOdd \/ Work \/ EndRegion

SpecEvenOdd == InitEvenOdd /\ [][NextEvenOdd]_vars

(* -------------------------- bootstrap_resample ------------------------- *)
\* rand() yields an int in 0..RAND_MAX; RandMax stands for RAND_MAX.  The store
\* into the double array x_out converts an int below 2^53, which is exact.
Rand == 0..RandMax

DrawOffByOne(r, len_in) == r % (len_in + 1)

Draw(r, len_in) == r % len_in

bootstrap_resample(len_in, len_out) ==
  /\ \E rnd \in Arr(len_out, Rand) :
       x_out' = [ii \in DOMAIN x_out |->
                   IF ii < len_out THEN Draw(rnd[ii], len_in) ELSE x_out[ii]]
  /\ ret' = 0
  /\ call' = [name |-> "bootstrap_resample", len_in |-> len_in, len_out |-> len_out]
  /\ UNCHANGED <<struct, mem, x_in, stray, fault, detector>>

ArrayLen(a) == Cardinality(DOMAIN a)

InitBoot ==
  /\ init_dw(0, 0)
  /\ EmptyRegistry
  /\ mem = ZeroMem(0, 0)
  /\ mem0 = mem
  /\ x_in \in {[ii \in 0..(n - 1) |-> 100 + ii] : n \in 1..MaxLen}
  /\ x_out = [ii \in 0..(MaxLen - 1) |-> -1]
  /\ Quiet

Resample == \E len_out \in 0..MaxLen : bootstrap_resample(ArrayLen(x_in), len_out)

NextBoot == Resample

SpecBoot == InitBoot /\ [][NextBoot]_vars

(* ======================= properties: the registry ====================== *)
registry == <<l_flag, flag_data, flag_product, l_flag_prod, flag_data_ind>>

\* C3: dw_set_flag_out with i_flag >= l_flag returns -1 and leaves l_flag, the
\* slots, the product table, its length and the labels as they were; with
\* 0 <= i_flag < l_flag it returns 0 and changes exactly slot i_flag to the
\* given reference.
C3_SetFlagOutBounds ==
  [][ /\ (call'.name = "dw_set_flag_out" /\ call'.i_flag >= l_flag)
           => (ret' = -1 /\ UNCHANGED registry)
      /\ (call'.name = "dw_set_flag_out" /\ call'.i_flag \in 0..(l_flag - 1))
           => /\ ret' = 0
              /\ flag_data' = [flag_data EXCEPT ![call'.i_flag] = call'.flag_data]
              /\ UNCHANGED <<l_flag, flag_product, l_flag_prod, flag_data_ind>> ]_vars

C3_Witness ==
  /\ call.name = "dw_set_flag_out"
  /\ call.i_flag >= l_flag
  /\ ret = -1
  /\ l_flag > 0
  /\ \E i \in DOMAIN flag_data : flag_data[i] # NULL /\ flag_data[i] # call.flag_data

\* C4: right after dw_alloc_flag_out(l_flag) the registry has exactly l_flag
\* slots and every one of them is NULL.
C4_AllocSlotsUnset ==
  call.name = "dw_alloc_flag_out"
    => /\ DOMAIN flag_data = 0..(l_flag - 1)
       /\ \A i \in DOMAIN flag_data : flag_data[i] = NULL

\* C5: every entry of the product table is -1 or a slot index in 0..l_flag-1.
C5_ProductInRange ==
  \A p \in DOMAIN flag_product :
    flag_product[p] = Unselected \/ flag_product[p] \in 0..(l_flag - 1)

\* C6: after dw_set_flag_prod the product table has length l_flag_prod and
\* equals the caller's flag_product, the label table has length l_flag and
\* equals the first l_flag entries of the caller's flag_data_ind, and l_flag
\* and the slots are unchanged.
C6_SetFlagProdCopies ==
  [][ call'.name = "dw_set_flag_prod"
        => /\ l_flag_prod' = call'.l_flag_prod
           /\ DOMAIN flag_product' = 0..(call'.l_flag_prod - 1)
           /\ \A ii \in DOMAIN flag_product' : flag_product'[ii] = call'.flag_product[ii]
           /\ DOMAIN flag_data_ind' = 0..(l_flag - 1)
           /\ \A ii \in DOMAIN flag_data_ind' : flag_data_ind'[ii] = call'.flag_data_ind[ii]
           /\ UNCHANGED <<l_flag, flag_data>> ]_vars

C6_Witness ==
  /\ call.name = "dw_set_flag_prod"
  /\ l_flag_prod > 0
  /\ l_flag > l_flag_prod
  /\ flag_product = call.flag_product
  /\ DOMAIN flag_data_ind = 0..(l_flag - 1)
  /\ DOMAIN call.flag_data_ind # DOMAIN flag_data_ind

\* C10: dw_set_flag_out with i_flag < 0 returns a failure status and stores
\* nothing, so every store lands at a slot index in 0..l_flag-1.
C10_NegativeIndexRejected ==
  /\ ~fault
  /\ stray = {}
  /\ (call.name = "dw_set_flag_out" /\ call.i_flag < 0) => ret # 0

(* ====================== properties: the parity detector ================ *)
\* every requested product is mapped to a slot that holds a flag matrix
WellFormed == \A k \in 0..(NumParity - 1) : Requested(k) => Bound(k)

Ones(m) == {off \in DOMAIN mem[m] : mem[m][off] = 1}

ColumnCells(parity) ==
  {off \in 0..(rows * cols - 1) : (off % cols) % 2 = parity}

\* C1: after dw_even_odd on zeroed flag matrices, with products 0 and 1 both
\* requested and mapped to two distinct slots (holding two flag matrices), the
\* product-0 matrix has ceil(cols/2) * rows cells equal to 1, those of columns
\* 0, 2, 4, ..., the product-1 matrix has floor(cols/2) * rows, those of
\* columns 1, 3, 5, ..., and no position is flagged in both.
C1_ParityCounts ==
  ( /\ pc = "done"
    /\ mem0 = ZeroMem(rows, cols)
    /\ Requested(0) /\ Requested(1)
    /\ WellFormed
    /\ flag_product[0] # flag_product[1]
    /\ Dest(0) # Dest(1) )
  => /\ Cardinality(Ones(Dest(0))) = ((cols + 1) \div 2) * rows
     /\ Ones(Dest(0)) = ColumnCells(0)
     /\ Cardinality(Ones(Dest(1))) = (cols \div 2) * rows
     /\ Ones(Dest(1)) = ColumnCells(1)
     /\ Ones(Dest(0)) \cap Ones(Dest(1)) = {}

C1_Witness ==
  /\ pc = "done"
  /\ mem0 = ZeroMem(rows, cols)
  /\ Requested(0) /\ Requested(1)
  /\ WellFormed
  /\ flag_product[0] # flag_product[1]
  /\ Dest(0) # Dest(1)
  /\ rows = MaxRows
  /\ cols = MaxCols
  /\ Cardinality(Ones(Dest(0))) + Cardinality(Ones(Dest(1))) = rows * cols

\* C2: with flag_product[k] = -1 a call makes no store on behalf of product
\* k: a cell that differs from its value at the call was stored by a requested
\* product, and with both products at -1 no cell changes.
C2_UnselectedUntouched ==
  call.name = "dw_even_odd"
    => /\ \A w \in written : flag_product[w.prod] # Unselected
       /\ \A m \in Mats : \A off \in DOMAIN mem[m] :
            mem[m][off] # mem0[m][off]
              => \E w \in written :
                   w.m = m /\ w.off = off /\ flag_product[w.prod] # Unselected
       /\ (flag_product[0] = Unselected /\ flag_product[1] = Unselected)
            => mem = mem0

C2_Witness ==
  /\ pc = "done"
  /\ flag_product[0] = Unselected
  /\ Requested(1)
  /\ Bound(1)
  /\ mem0 = ZeroMem(rows, cols)
  /\ Ones(Dest(1)) = ColumnCells(1)
  /\ ColumnCells(1) # {}
  /\ \A w \in written : w.prod = 1

\* C8: a later dw_even_odd with the same context, registry and product table
\* ends, from zeroed flag matrices, with the matrices the first call left,
\* whatever the order of the parallel units; and from the matrices a call left
\* it changes no cell.
C8_Idempotent ==
  (WellFormed /\ call.name = "dw_even_odd" /\ call.again)
    => /\ pc = "done" => mem = first
       /\ ~call.fresh => mem = first

C8_Witness ==
  /\ WellFormed
  /\ call.name = "dw_even_odd"
  /\ call.again
  /\ call.fresh
  /\ pc = "done"
  /\ Requested(0) /\ Requested(1)
  /\ mem = first
  /\ mem # ZeroMem(rows, cols)

\* C9: no cell is stored by two different parallel units; a unit ii stores
\* only cells (row, ii); the two regions store to disjoint column sets; the
\* second region runs only after every unit of the first has finished; and the
\* call ends with the matrices of the serial execution.  Both products may map
\* to the same slot.
C9_NoWriteWriteRace ==
  WellFormed
    => /\ \A w1, w2 \in written :
            (w1.m = w2.m /\ w1.off = w2.off) => (w1.prod = w2.prod /\ w1.ii = w2.ii)
       /\ \A w \in written :
            /\ w.row \in 0..(rows - 1)
            /\ w.ii \in 0..(cols - 1)
            /\ w.off % cols = w.ii
            /\ w.off \div cols = w.row
       /\ \A w1, w2 \in written :
            w1.prod # w2.prod => (w1.off % cols) # (w2.off % cols)
       /\ (pc = "par1" /\ Requested(0))
            => \A ii \in Channels(0) : \A r \in 0..(rows - 1) :
                 \E w \in written : w.prod = 0 /\ w.ii = ii /\ w.row = r
       /\ pc = "done" => mem = SerialEvenOdd(mem0)

C9_Witness ==
  /\ WellFormed
  /\ pc = "par1"
  /\ Requested(0)
  /\ flag_product[0] = flag_product[1]
  /\ \E ii \in DOMAIN row : 0 < row[ii] /\ row[ii] < rows
  /\ \E w \in written : w.prod = 0 /\ w.ii = 2
  /\ \E w \in written : w.prod = 1

====
